---------------------------- MODULE Spec2Model ----------------------------
(***************************************************************************)
(* The inter-cell transport of Leif-Rydenfalk/cell, Python bindings:       *)
(*   cell-py      Membrane (serial accept loop, big-endian frames, probe   *)
(*                sentinel) and Synapse (broker handshake, fire);          *)
(*   cell-sdk-py  Membrane (thread per connection, little-endian frames)   *)
(*                and Synapse.call (direct, one connection per call).      *)
(* Bytes are numbers 0..255; a connection is a pair of byte queues; every  *)
(* blocking socket call (accept, recv, sendall) is one step.               *)
(* Spec follows a Membrane and its clients; SpecLife adds what can happen  *)
(* to a Membrane from outside (interrupt, stop, a second Membrane on the   *)
(* same path); FairSerial is cell-py's serial loop under fair scheduling.  *)
(***************************************************************************)
EXTENDS Integers, Sequences, FiniteSets, TLC

\* ------------------------------------------------------------------ bounds
\* how many request frames the clients begin
MaxFrames == 2

\* the connections: the first client to connect and the second
Conns == { 1, 2 }

\* ------------------------------------------------------------ byte strings
Take(s, k) == SubSeq(s, 1, k)
Drop(s, k) == SubSeq(s, k + 1, Len(s))
Min(a, b) == IF a < b THEN a ELSE b
IsPrefix(p, s) == Len(p) <= Len(s) /\ Take(s, Len(p)) = p

\* struct.pack(">I", n) and struct.unpack(">I", b)[0]
PackBE(n) ==
    << (n \div 16777216) % 256, (n \div 65536) % 256, (n \div 256) % 256, n % 256 >>
UnpackBE(b) == b[1] * 16777216 + b[2] * 65536 + b[3] * 256 + b[4]

\* struct.pack("<I", n) and struct.unpack("<I", b)[0]
PackLE(n) ==
    << n % 256, (n \div 256) % 256, (n \div 65536) % 256, (n \div 16777216) % 256 >>
UnpackLE(b) == b[1] + b[2] * 256 + b[3] * 65536 + b[4] * 16777216

\* the length header of each variant
Pack(v, n) == IF v = "py" THEN PackBE(n) ELSE PackLE(n)
Unpack(v, b) == IF v = "py" THEN UnpackBE(b) ELSE UnpackLE(b)

\* ------------------------------------------------------------------- JSON
\* The structured values of the model are the small naturals; their JSON
\* text is the decimal numeral in ASCII.  "1" = 49 ... "9" = 57.
IsDigit(b) == b >= 49 /\ b <= 57

RECURSIVE DecVal(_)
DecVal(s) == IF s = << >> THEN 0 ELSE DecVal(Take(s, Len(s) - 1)) * 10 + (s[Len(s)] - 48)

\* faulty variant: text that is no JSON is taken for the value 0
LoadsLenient(s) ==
    IF Len(s) >= 1 /\ \A i \in 1 .. Len(s) : IsDigit(s[i]) THEN DecVal(s) ELSE 0

\* json.loads(bytes.decode('utf-8')): the value, or -1 for JSONDecodeError
Loads(s) ==
    IF Len(s) >= 1 /\ \A i \in 1 .. Len(s) : IsDigit(s[i]) THEN DecVal(s) ELSE -1

\* faulty variant: only the last digit is written
DumpsLastDigit(n) == << 48 + (n % 10) >>

\* json.dumps(v).encode('utf-8')
RECURSIVE Dumps(_)
Dumps(n) == IF n < 10 THEN << 48 + n >> ELSE Dumps(n \div 10) \o << 48 + (n % 10) >>

\* b"__GENOME__"
GENOME == << 95, 95, 71, 69, 78, 79, 77, 69, 95, 95 >>

\* b'{"type":"dynamic_python"}'
GenomeReply ==
    << 123, 34, 116, 121, 112, 101, 34, 58, 34, 100, 121, 110, 97, 109, 105, 99,
       95, 112, 121, 116, 104, 111, 110, 34, 125 >>

\* the user handler, an opaque callable: its result when it returns
HandlerFn(v) == v + 1

\* _send_vesicle / the sdk's two sendall calls: the bytes of one frame
Frame(v, p) == Pack(v, Len(p)) \o p

\* --------------------------------------------------------- peers' scripts
\* What an arbitrary peer writes on a connection before it closes: whole
\* frames, then possibly the beginning of one more.
\* "1", "12", "x", and for cell-py, which knows it, the sentinel
Payloads(v) ==
    { << 49 >>, << 49, 50 >>, << 120 >> } \cup (IF v = "py" THEN { GENOME } ELSE { })

\* nothing; two bytes of the header of "12"; that header and the byte "1"
Tails(v) ==
    { << >>, Take(Frame(v, << 49, 50 >>), 2), Take(Frame(v, << 49, 50 >>), 5) }

RECURSIVE FramesBytes(_, _)
FramesBytes(v, fs) ==
    IF fs = << >> THEN << >> ELSE Frame(v, Head(fs)) \o FramesBytes(v, Tail(fs))

ScriptBytes(v, fs, tail) == FramesBytes(v, fs) \o tail

\* how many frames a script begins
ScriptFrames(fs, tail) == Len(fs) + (IF tail = << >> THEN 0 ELSE 1)

FrameSeqs(v, n) == UNION { [1 .. k -> Payloads(v)] : k \in 0 .. n }

\* -------------------------------------------------------------------- state
VARIABLES
    variant,     \* "py" (src/cell-py) or "sdk" (src/cell-sdk-py): which pair runs
    listening,   \* the Membrane's listening socket is bound and open
    bindPc,      \* Membrane.bind: "init", "accept", "handling" (py only);
                 \* bind is over: "raised", "interrupted": an exception or a
                 \* KeyboardInterrupt has left it; "returned": it returned
    bindConn,    \* py: the connection _handle_transport is running on, else 0
    backlog,     \* connections waiting in the listen queue, oldest first
    acceptRaised,\* accept() has raised at least once
    budget,      \* request frames the clients may still begin
    cpc,         \* each client's position: "idle", "raw", or a Synapse position
    c2s,         \* bytes in flight from the client to the Membrane
    s2c,         \* bytes in flight from the Membrane (or broker) to the client
    peerClosed,  \* the client has closed its socket
    th,          \* the conversation on each connection: its locals
    log,         \* history of each conversation, for the properties
    syn,         \* each Synapse's locals and history
    running,     \* cell-sdk-py: self.running
    path,        \* the socket file at the Membrane's path: "none", "own" (it
                 \* names this Membrane's listener) or "other"
    other        \* a second Membrane given the same path: "none", "listening",
                 \* "stopped"

vars == << variant, listening, bindPc, bindConn, backlog, acceptRaised, budget,
           cpc, c2s, s2c, peerClosed, th, log, syn, running, path, other >>

\* the locals of _handle_transport / _handle_client
\*   pc: "none", "hdr", "body", "dispatch", "sendhdr", "sendbody", "closed"
NoThread == [ pc |-> "none", data |-> << >>, length |-> 0, resp |-> << >>, probe |-> FALSE ]

\* frames: what each frame read handed on: the declared length and the bytes
\* calls: the values the handler was invoked with;  sent: every byte written
\* report: what was written to the operator;  ending: how the conversation ended
\* fs, tail: the peer's script;  resps: response frames completely written
\* closes: how many times conn.close() ran
NoLog == [ frames |-> << >>, calls |-> << >>, sent |-> << >>, report |-> << >>,
           ending |-> "", fs |-> << >>, tail |-> << >>, resps |-> 0, closes |-> 0 ]

\* the locals of a Synapse (cell-py) or of one Synapse.call (cell-sdk-py):
\*   name: the target's name;  req: the value sent, -1 before any;  data,
\*   length: the response read so far;  result: the value returned, -1 if none;
\*   error: the exception raised;  sockOpen: the socket is open
\* and its history:  out: every byte written;  hsRead, frRead: bytes read as
\*   handshake ack and as frame data;  broker: what the broker did: "",
\*   "routed" (sent 0x00), "rejected" (sent 0x01, closed), "closed" (closed);
\*   connects: connect() calls made;  fires: calls of fire / call begun;
\*   sendFailed: a sendall has raised: the far end is gone for good (EPIPE)
NoSyn == [ name |-> << >>, req |-> -1, data |-> << >>, length |-> 0,
           result |-> -1, error |-> "", sockOpen |-> FALSE,
           out |-> << >>, hsRead |-> 0, frRead |-> 0, broker |-> "",
           connects |-> 0, fires |-> 0, sendFailed |-> FALSE ]

Init ==
    /\ variant \in { "py", "sdk" }
    \* cell-py binds and listens in __init__; cell-sdk-py only in bind()
    /\ listening = (variant = "py")
    /\ bindPc = "init"
    /\ bindConn = 0
    /\ backlog = << >>
    /\ acceptRaised = FALSE
    /\ budget = MaxFrames
    /\ cpc = [ c \in Conns |-> "idle" ]
    /\ c2s = [ c \in Conns |-> << >> ]
    /\ s2c = [ c \in Conns |-> << >> ]
    /\ peerClosed = [ c \in Conns |-> FALSE ]
    /\ th = [ c \in Conns |-> NoThread ]
    /\ log = [ c \in Conns |-> NoLog ]
    /\ syn = [ c \in Conns |-> NoSyn ]
    /\ running = TRUE
    \* cell-py, started by hand, has bound its path in __init__
    /\ path = IF variant = "py" THEN "own" ELSE "none"
    /\ other = "none"

\* ------------------------------------------------------------ an arbitrary peer
\* connects, writes its script and closes
RawConnect(c, fs, tail) ==
    /\ cpc[c] = "idle"
    /\ \A d \in Conns : d < c => cpc[d] # "idle"   \* c is the c-th to connect
    /\ listening
    /\ path = "own"
    /\ ScriptFrames(fs, tail) <= budget
    /\ cpc' = [ cpc EXCEPT ![c] = "raw" ]
    /\ c2s' = [ c2s EXCEPT ![c] = ScriptBytes(variant, fs, tail) ]
    /\ peerClosed' = [ peerClosed EXCEPT ![c] = TRUE ]
    /\ backlog' = Append(backlog, c)
    /\ budget' = budget - ScriptFrames(fs, tail)
    /\ log' = [ log EXCEPT ![c].fs = fs, ![c].tail = tail ]
    /\ UNCHANGED << running, path, other, variant, listening, bindPc, bindConn,
                    acceptRaised, s2c, th, syn >>


\* ------------------------------------------------------ conversation helpers
Closed == [ NoThread EXCEPT !.pc = "closed" ]

\* one step of the conversation on c: its locals become t, its history l
Conv(c, t, l) ==
    /\ th' = [ th EXCEPT ![c] = t ]
    /\ log' = [ log EXCEPT ![c] = l ]

\* conn.recv(n) can return now: bytes are waiting, or the peer has closed
CanRecv(c) == c2s[c] # << >> \/ peerClosed[c]

\* conn.recv(n) returns k bytes (k = 0: the peer has closed, b'')
RecvSizes(c, n) ==
    IF c2s[c] # << >> THEN 1 .. Min(n, Len(c2s[c])) ELSE { 0 }

\* faulty variant: the conversation is over and conn.close() was not called
EndConvLeaks(c, l, how, reps) ==
    Conv(c, Closed, [ l EXCEPT !.ending = how, !.report = @ \o reps ])

\* the finally clause: conn.close(), and the conversation is over
EndConv(c, l, how, reps) ==
    Conv(c, Closed, [ l EXCEPT !.ending = how, !.report = @ \o reps, !.closes = @ + 1 ])

\* faulty variant: the bytes go out on the other connection
WrittenToOther(c, b) == s2c' = [ s2c EXCEPT ![3 - c] = @ \o b ]

\* sendall(b) on c succeeded
Written(c, b) == s2c' = [ s2c EXCEPT ![c] = @ \o b ]

\* sendall can raise: the peer has closed (EPIPE, ECONNRESET), or the system
\* call fails for the process's own reasons (ENOBUFS, ENOMEM), whoever the
\* peer is
CanFailSend(c) == peerClosed[c] \/ cpc[c] # "idle"

\* ---------------------------------------------------- cell-py: Membrane.bind
PyBindStart ==
    /\ variant = "py"
    /\ bindPc = "init"
    /\ bindPc' = "accept"
    /\ UNCHANGED << running, path, other, variant, listening, bindConn, backlog, acceptRaised, budget,
                    cpc, c2s, s2c, peerClosed, th, log, syn >>

\* faulty variant: bind goes on accepting while the conversation runs
PyAcceptsOn == "accept"

\* where bind is while _handle_transport runs: inside the call, on the same
\* thread, and not at accept
PyAfterAccept == "handling"

\* conn, _ = self.listener.accept(); self._handle_transport(conn, handler)
PyAccept ==
    /\ variant = "py"
    /\ bindPc = "accept"
    /\ backlog # << >>
    /\ bindPc' = PyAfterAccept
    /\ bindConn' = Head(backlog)
    /\ backlog' = Tail(backlog)
    /\ th' = [ th EXCEPT ![Head(backlog)] = [ NoThread EXCEPT !.pc = "hdr" ] ]
    /\ UNCHANGED << running, path, other, variant, listening, acceptRaised, budget, cpc, c2s, s2c,
                    peerClosed, log, syn >>

\* accept() raises: except Exception writes "Accept Error" and the loop goes on
PyAcceptFail ==
    /\ variant = "py"
    /\ bindPc = "accept"
    /\ backlog # << >>
    /\ acceptRaised' = TRUE
    /\ UNCHANGED << running, path, other, variant, listening, bindPc, bindConn, backlog, budget, cpc,
                    c2s, s2c, peerClosed, th, log, syn >>

\* faulty variant: the end of a conversation takes bind out of its loop
PyLeavesBind ==
    /\ bindPc' = "raised"
    /\ bindConn' = 0

\* _handle_transport has returned (or raised into bind's except): next accept
PyBackToAccept ==
    /\ bindPc' = "accept"
    /\ bindConn' = 0

\* --------------------------------------- cell-py: Membrane._handle_transport
\* where _handle_transport goes once _recv_exact(conn, 4) has returned 4 bytes:
\* _recv_exact(conn, 0) returns b'' without a recv
PyAfterHeader(t, hdr) ==
    IF UnpackBE(hdr) = 0
    THEN [ t EXCEPT !.pc = "dispatch", !.data = << >>, !.length = 0 ]
    ELSE [ t EXCEPT !.pc = "body", !.data = << >>, !.length = UnpackBE(hdr) ]

\* header = self._recv_exact(conn, 4): one conn.recv(4 - len(data))
PyRecvHeader(c) ==
    /\ variant = "py"
    /\ th[c].pc = "hdr"
    /\ CanRecv(c)
    /\ \E k \in RecvSizes(c, 4 - Len(th[c].data)) :
          LET got == th[c].data \o Take(c2s[c], k) IN
          /\ c2s' = [ c2s EXCEPT ![c] = Drop(@, k) ]
          /\ IF k = 0
             THEN \* _recv_exact returns None; "if not header: break"
                  /\ EndConv(c, log[c], IF th[c].data = << >> THEN "eof" ELSE "midlen", << >>)
                  /\ PyBackToAccept
             ELSE /\ IF Len(got) = 4
                     THEN Conv(c, PyAfterHeader(th[c], got), log[c])
                     ELSE Conv(c, [ th[c] EXCEPT !.data = got ], log[c])
                  /\ UNCHANGED << bindPc, bindConn >>
    /\ UNCHANGED << running, path, other, variant, listening, backlog, acceptRaised, budget, cpc, s2c,
                    peerClosed, syn >>

\* payload = self._recv_exact(conn, length): one conn.recv(length - len(data))
PyRecvBody(c) ==
    /\ variant = "py"
    /\ th[c].pc = "body"
    /\ CanRecv(c)
    /\ \E k \in RecvSizes(c, th[c].length - Len(th[c].data)) :
          LET got == th[c].data \o Take(c2s[c], k) IN
          /\ c2s' = [ c2s EXCEPT ![c] = Drop(@, k) ]
          /\ IF k = 0
             THEN \* _recv_exact returns None; "if payload is None: break"
                  /\ EndConv(c, log[c], "midbody", << >>)
                  /\ PyBackToAccept
             ELSE /\ IF Len(got) = th[c].length
                     THEN Conv(c, [ th[c] EXCEPT !.pc = "dispatch", !.data = got ], log[c])
                     ELSE Conv(c, [ th[c] EXCEPT !.data = got ], log[c])
                  /\ UNCHANGED << bindPc, bindConn >>
    /\ UNCHANGED << running, path, other, variant, listening, backlog, acceptRaised, budget, cpc, s2c,
                    peerClosed, syn >>

\* faulty variant: the result is dropped and the next request is read
PyAfterHandlerNoReply(t, v) ==
    [ t EXCEPT !.pc = "hdr", !.resp = << >>, !.probe = FALSE, !.data = << >> ]

\* the locals once the handler has returned v: res_bytes is to be sent
PyAfterHandler(t, v) ==
    [ t EXCEPT !.pc = "sendhdr", !.resp = Dumps(v), !.probe = FALSE, !.data = << >> ]

\* faulty variant: the payload is parsed before it is compared
PyKindParseFirst(p) ==
    IF Loads(p) = -1 THEN "nonjson" ELSE IF p = GENOME THEN "probe" ELSE "request"

\* what _handle_transport takes a payload for: "if payload == b'__GENOME__'"
\* comes first, json.loads after it
PyKind(p) ==
    IF p = GENOME THEN "probe" ELSE IF Loads(p) = -1 THEN "nonjson" ELSE "request"

\* steps 3 and 4 for one payload: the sentinel, json.loads, handler(req_data)
PyDispatch(c) ==
    /\ variant = "py"
    /\ th[c].pc = "dispatch"
    /\ LET p == th[c].data
           l == [ log[c] EXCEPT !.frames = Append(@, [ length |-> th[c].length, bytes |-> p ]) ]
       IN  IF PyKind(p) = "probe"
           THEN /\ Conv(c, [ th[c] EXCEPT !.pc = "sendhdr", !.resp = GenomeReply,
                                         !.probe = TRUE, !.data = << >> ], l)
                /\ UNCHANGED << bindPc, bindConn >>
           ELSE IF PyKind(p) = "nonjson"
           THEN \* except json.JSONDecodeError: report, break
                /\ EndConv(c, l, "nonjson", << "nonjson" >>)
                /\ PyBackToAccept
           ELSE \E ok \in BOOLEAN :
                LET lc == [ l EXCEPT !.calls = Append(@, Loads(p)) ] IN
                IF ok
                THEN /\ Conv(c, PyAfterHandler(th[c], HandlerFn(Loads(p))), lc)
                     /\ UNCHANGED << bindPc, bindConn >>
                ELSE \* the handler raised: except Exception: report, break
                     /\ EndConv(c, lc, "handler", << "panic" >>)
                     /\ PyBackToAccept
    /\ UNCHANGED << running, path, other, variant, listening, backlog, acceptRaised, budget, cpc, c2s,
                    s2c, peerClosed, syn >>


\* _send_vesicle, first sendall: conn.sendall(struct.pack(">I", length))
PySendHeader(c) ==
    /\ variant = "py"
    /\ th[c].pc = "sendhdr"
    /\ \/ /\ Written(c, PackBE(Len(th[c].resp)))
          /\ Conv(c, [ th[c] EXCEPT !.pc = "sendbody" ],
                     [ log[c] EXCEPT !.sent = @ \o PackBE(Len(th[c].resp)) ])
          /\ UNCHANGED << bindPc, bindConn >>
       \/ /\ CanFailSend(c)
          \* the probe's send is outside the inner try: the error reaches bind
          /\ EndConv(c, log[c], "send",
                     IF th[c].probe THEN << "accept_error" >> ELSE << "panic" >>)
          /\ PyBackToAccept
          /\ UNCHANGED s2c
    /\ UNCHANGED << running, path, other, variant, listening, backlog, acceptRaised, budget, cpc, c2s,
                    peerClosed, syn >>

\* _send_vesicle, second sendall: conn.sendall(data); then the next request
PySendBody(c) ==
    /\ variant = "py"
    /\ th[c].pc = "sendbody"
    /\ \/ /\ Written(c, th[c].resp)
          /\ Conv(c, [ NoThread EXCEPT !.pc = "hdr" ],
                     [ log[c] EXCEPT !.sent = @ \o th[c].resp, !.resps = @ + 1 ])
          /\ UNCHANGED << bindPc, bindConn >>
       \/ /\ CanFailSend(c)
          /\ EndConv(c, log[c], "send",
                     IF th[c].probe THEN << "accept_error" >> ELSE << "panic" >>)
          /\ PyBackToAccept
          /\ UNCHANGED s2c
    /\ UNCHANGED << running, path, other, variant, listening, backlog, acceptRaised, budget, cpc, c2s,
                    peerClosed, syn >>

\* ------------------------------------------------ cell-sdk-py: Membrane.bind
\* the finally clause: server.close(); "if os.path.exists(self.socket_path):
\* os.remove(self.socket_path)"; bind is over, as pc says
SdkFinally(pc) ==
    /\ bindPc' = pc
    /\ listening' = FALSE
    /\ path' = "none"

\* "while self.running:" holds: bind goes (back) to the blocking accept
SdkLoop ==
    /\ bindPc' = "accept"
    /\ listening' = TRUE

\* os.remove(stale path); server.bind(path); server.listen(10); then the
\* first test of self.running
SdkBindStart ==
    /\ variant = "sdk"
    /\ bindPc = "init"
    /\ IF running THEN SdkLoop /\ path' = "own" ELSE SdkFinally("returned")
    /\ UNCHANGED << running, other, variant, bindConn, backlog, acceptRaised, budget,
                    cpc, c2s, s2c, peerClosed, th, log, syn >>

\* conn, _ = server.accept(); threading.Thread(target=_handle_client).start();
\* then the next test of self.running
SdkAccept ==
    /\ variant = "sdk"
    /\ bindPc = "accept"
    /\ backlog # << >>
    /\ backlog' = Tail(backlog)
    /\ th' = [ th EXCEPT ![Head(backlog)] = [ NoThread EXCEPT !.pc = "hdr" ] ]
    /\ IF running THEN SdkLoop /\ path' = path ELSE SdkFinally("returned")
    /\ UNCHANGED << running, other, variant, bindConn, acceptRaised, budget,
                    cpc, c2s, s2c, peerClosed, log, syn >>

\* where bind is once accept() has raised: nothing but KeyboardInterrupt is
\* caught, so the finally clause closes the listener and bind is left
SdkAfterAcceptError == "raised"

\* accept() raises
SdkAcceptFail ==
    /\ variant = "sdk"
    /\ bindPc = "accept"
    /\ backlog # << >>
    /\ acceptRaised' = TRUE
    /\ IF SdkAfterAcceptError = "raised"
       THEN SdkFinally("raised")
       ELSE UNCHANGED << bindPc, listening, path >>
    /\ UNCHANGED << running, other, variant, bindConn, backlog, budget, cpc, c2s, s2c,
                    peerClosed, th, log, syn >>

\* ----------------------------------------- cell-sdk-py: Membrane._handle_client
\* header = conn.recv(4); "if not header or len(header) < 4: break"
SdkRecvHeader(c) ==
    /\ variant = "sdk"
    /\ th[c].pc = "hdr"
    /\ CanRecv(c)
    /\ \E k \in RecvSizes(c, 4) :
          LET hdr == Take(c2s[c], k) IN
          /\ c2s' = [ c2s EXCEPT ![c] = Drop(@, k) ]
          /\ IF k < 4
             THEN EndConv(c, log[c], IF k = 0 THEN "eof" ELSE "short", << >>)
             ELSE IF UnpackLE(hdr) = 0
             THEN Conv(c, [ th[c] EXCEPT !.pc = "dispatch", !.data = << >>, !.length = 0 ],
                       log[c])
             ELSE Conv(c, [ th[c] EXCEPT !.pc = "body", !.data = << >>,
                                         !.length = UnpackLE(hdr) ], log[c])
    /\ UNCHANGED << running, path, other, variant, listening, bindPc, bindConn, backlog, acceptRaised,
                    budget, cpc, s2c, peerClosed, syn >>

\* chunk = conn.recv(length - len(data)); "if not chunk: break" leaves the read
\* loop only, and the bytes read so far go on to json.loads
SdkRecvBody(c) ==
    /\ variant = "sdk"
    /\ th[c].pc = "body"
    /\ CanRecv(c)
    /\ \E k \in RecvSizes(c, th[c].length - Len(th[c].data)) :
          LET got == th[c].data \o Take(c2s[c], k) IN
          /\ c2s' = [ c2s EXCEPT ![c] = Drop(@, k) ]
          /\ IF k = 0 \/ Len(got) = th[c].length
             THEN Conv(c, [ th[c] EXCEPT !.pc = "dispatch", !.data = got ], log[c])
             ELSE Conv(c, [ th[c] EXCEPT !.data = got ], log[c])
    /\ UNCHANGED << running, path, other, variant, listening, bindPc, bindConn, backlog, acceptRaised,
                    budget, cpc, s2c, peerClosed, syn >>

\* the locals once the handler has returned v: resp_bytes is to be sent
SdkAfterHandler(t, v) ==
    [ t EXCEPT !.pc = "sendhdr", !.resp = Dumps(v), !.data = << >> ]

\* json.loads(data.decode('utf-8')); resp_obj = handler(req_obj)
SdkDispatch(c) ==
    /\ variant = "sdk"
    /\ th[c].pc = "dispatch"
    /\ LET p == th[c].data
           l == [ log[c] EXCEPT !.frames = Append(@, [ length |-> th[c].length, bytes |-> p ]) ]
       IN  IF Loads(p) = -1
           THEN \* except Exception: print("Error: ...")
                EndConv(c, l, "nonjson", << "error" >>)
           ELSE \E ok \in BOOLEAN :
                LET lc == [ l EXCEPT !.calls = Append(@, Loads(p)) ] IN
                IF ok
                THEN Conv(c, SdkAfterHandler(th[c], HandlerFn(Loads(p))), lc)
                ELSE EndConv(c, lc, "handler", << "error" >>)
    /\ UNCHANGED << running, path, other, variant, listening, bindPc, bindConn, backlog, acceptRaised,
                    budget, cpc, c2s, s2c, peerClosed, syn >>

\* conn.sendall(struct.pack('<I', len(resp_bytes)))
SdkSendHeader(c) ==
    /\ variant = "sdk"
    /\ th[c].pc = "sendhdr"
    /\ \/ /\ Written(c, PackLE(Len(th[c].resp)))
          /\ Conv(c, [ th[c] EXCEPT !.pc = "sendbody" ],
                     [ log[c] EXCEPT !.sent = @ \o PackLE(Len(th[c].resp)) ])
       \/ /\ CanFailSend(c)
          /\ EndConv(c, log[c], "send", << "error" >>)
          /\ UNCHANGED s2c
    /\ UNCHANGED << running, path, other, variant, listening, bindPc, bindConn, backlog, acceptRaised,
                    budget, cpc, c2s, peerClosed, syn >>

\* conn.sendall(resp_bytes); then the next request
SdkSendBody(c) ==
    /\ variant = "sdk"
    /\ th[c].pc = "sendbody"
    /\ \/ /\ Written(c, th[c].resp)
          /\ Conv(c, [ NoThread EXCEPT !.pc = "hdr" ],
                     [ log[c] EXCEPT !.sent = @ \o th[c].resp, !.resps = @ + 1 ])
       \/ /\ CanFailSend(c)
          /\ EndConv(c, log[c], "send", << "error" >>)
          /\ UNCHANGED s2c
    /\ UNCHANGED << running, path, other, variant, listening, bindPc, bindConn, backlog, acceptRaised,
                    budget, cpc, c2s, peerClosed, syn >>


\* ------------------------------------------------------------ Synapse helpers
\* the far end of the client's socket is closed: the Membrane closed the
\* connection (a broker proxies the close), or the broker closed it
FarClosed(c) == th[c].pc = "closed" \/ syn[c].broker \in { "rejected", "closed" }

\* client.recv(n) can return now
CanRecvC(c) == s2c[c] # << >> \/ FarClosed(c)

RecvSizesC(c, n) ==
    IF s2c[c] # << >> THEN 1 .. Min(n, Len(s2c[c])) ELSE { 0 }

\* the c-th client to appear
NextClient(c) == cpc[c] = "idle" /\ \A d \in Conns : d < c => cpc[d] # "idle"

\* the client writes b
Sends(c, b) ==
    /\ c2s' = [ c2s EXCEPT ![c] = @ \o b ]
    /\ syn' = [ syn EXCEPT ![c].out = @ \o b ]

\* the call raises e; the socket is left as it is
Raises(c, e) ==
    /\ cpc' = [ cpc EXCEPT ![c] = "failed" ]
    /\ syn' = [ syn EXCEPT ![c].error = e ]

\* The socket object of a call that raised, or of a Synapse its caller
\* dropped, is closed when the runtime collects it.
Collect(c) ==
    /\ cpc[c] \in { "failed", "rejected", "ready" }
    /\ syn[c].sockOpen
    /\ syn' = [ syn EXCEPT ![c].sockOpen = FALSE ]
    /\ peerClosed' = [ peerClosed EXCEPT ![c] = TRUE ]
    /\ cpc' = [ cpc EXCEPT ![c] = IF @ = "ready" THEN "dropped" ELSE @ ]
    /\ UNCHANGED << running, path, other, variant, listening, bindPc, bindConn, backlog, acceptRaised,
                    budget, c2s, s2c, th, log >>

\* ------------------------------------------------- cell-sdk-py: Synapse.call
Values == { 1, 12 }

\* os.path.exists(socket_path), client.connect(socket_path), and the first
\* sendall: the length header of json.dumps(payload)
SdkCallRequestHeader(v) == PackLE(Len(Dumps(v)))

SdkCall(c, v) ==
    /\ variant = "sdk"
    /\ NextClient(c)
    /\ budget > 0
    /\ budget' = budget - 1
    /\ path # "other"
    /\ IF path = "none"
       THEN \* os.path.exists fails: raise ConnectionError("Cell ... not found")
            /\ cpc' = [ cpc EXCEPT ![c] = "failed" ]
            /\ syn' = [ syn EXCEPT ![c].error = "not_found", ![c].req = v, ![c].fires = 1 ]
            /\ UNCHANGED << backlog, c2s >>
       ELSE /\ cpc' = [ cpc EXCEPT ![c] = "c_sendbody" ]
            /\ backlog' = Append(backlog, c)
            /\ c2s' = [ c2s EXCEPT ![c] = @ \o SdkCallRequestHeader(v) ]
            /\ syn' = [ syn EXCEPT ![c].req = v, ![c].sockOpen = TRUE,
                                   ![c].out = @ \o SdkCallRequestHeader(v),
                                   ![c].connects = @ + 1, ![c].fires = 1 ]
    /\ UNCHANGED << running, path, other, variant, listening, bindPc, bindConn, acceptRaised, s2c,
                    peerClosed, th, log >>

\* client.sendall(payload_bytes)
SdkCallSendBody(c) ==
    /\ variant = "sdk"
    /\ cpc[c] = "c_sendbody"
    /\ \/ /\ Sends(c, Dumps(syn[c].req))
          /\ cpc' = [ cpc EXCEPT ![c] = "c_recvhdr" ]
       \/ /\ FarClosed(c)
          /\ Raises(c, "send")
          /\ UNCHANGED c2s
    /\ UNCHANGED << running, path, other, variant, listening, bindPc, bindConn, backlog, acceptRaised,
                    budget, s2c, peerClosed, th, log >>

\* header = client.recv(4); length = struct.unpack('<I', header)[0]
SdkCallRecvHeader(c) ==
    /\ variant = "sdk"
    /\ cpc[c] = "c_recvhdr"
    /\ CanRecvC(c)
    /\ \E k \in RecvSizesC(c, 4) :
          LET hdr == Take(s2c[c], k) IN
          /\ s2c' = [ s2c EXCEPT ![c] = Drop(@, k) ]
          /\ IF k < 4
             THEN \* struct.error: unpack requires a buffer of 4 bytes
                  /\ cpc' = [ cpc EXCEPT ![c] = "failed" ]
                  /\ syn' = [ syn EXCEPT ![c].error = "struct", ![c].frRead = @ + k ]
             ELSE /\ cpc' = [ cpc EXCEPT ![c] = "c_recvbody" ]
                  /\ syn' = [ syn EXCEPT ![c].length = UnpackLE(hdr), ![c].data = << >>,
                                         ![c].frRead = @ + k ]
    /\ UNCHANGED << running, path, other, variant, listening, bindPc, bindConn, backlog, acceptRaised,
                    budget, c2s, peerClosed, th, log >>

\* "while len(data) < length: data += client.recv(length - len(data))", then
\* client.close() and json.loads(data.decode('utf-8'))
SdkCallRecvBody(c) ==
    /\ variant = "sdk"
    /\ cpc[c] = "c_recvbody"
    /\ IF Len(syn[c].data) = syn[c].length
       THEN /\ peerClosed' = [ peerClosed EXCEPT ![c] = TRUE ]
            /\ IF Loads(syn[c].data) = -1
               THEN /\ cpc' = [ cpc EXCEPT ![c] = "failed" ]
                    /\ syn' = [ syn EXCEPT ![c].error = "json", ![c].sockOpen = FALSE ]
               ELSE /\ cpc' = [ cpc EXCEPT ![c] = "returned" ]
                    /\ syn' = [ syn EXCEPT ![c].result = Loads(syn[c].data),
                                           ![c].sockOpen = FALSE ]
            /\ UNCHANGED s2c
       ELSE /\ CanRecvC(c)
            /\ \E k \in RecvSizesC(c, syn[c].length - Len(syn[c].data)) :
                  /\ s2c' = [ s2c EXCEPT ![c] = Drop(@, k) ]
                  \* recv returns b'' for ever once the peer is gone: the loop spins
                  /\ cpc' = [ cpc EXCEPT ![c] = IF k = 0 THEN "spinning" ELSE @ ]
                  /\ syn' = [ syn EXCEPT ![c].data = @ \o Take(s2c[c], k),
                                         ![c].frRead = @ + k ]
            /\ UNCHANGED peerClosed
    /\ UNCHANGED << running, path, other, variant, listening, bindPc, bindConn, backlog, acceptRaised,
                    budget, c2s, th, log >>

\* ------------------------------------------------ cell-py: Synapse.__init__
\* target_cell.encode('utf-8'): "w" and "wk"
Names == { << 119 >>, << 119, 107 >> }

\* self.sock.connect(golgi_path); self.sock.sendall(b'\x01')
\* One Synapse object is followed; the other client is an arbitrary peer.
PySynConnect(c, name) ==
    /\ variant = "py"
    /\ NextClient(c)
    /\ \A d \in Conns : cpc[d] \in { "idle", "raw" }
    /\ budget' = budget
    /\ cpc' = [ cpc EXCEPT ![c] = "hs_len" ]
    /\ c2s' = [ c2s EXCEPT ![c] = @ \o << 1 >> ]
    /\ syn' = [ syn EXCEPT ![c].name = name, ![c].sockOpen = TRUE, ![c].out = @ \o << 1 >>,
                           ![c].connects = @ + 1 ]
    /\ UNCHANGED << running, path, other, variant, listening, bindPc, bindConn, backlog, acceptRaised,
                    s2c, peerClosed, th, log >>

\* self.sock.sendall(struct.pack(">I", len(name_bytes)))
PySynSendLen(c) ==
    /\ variant = "py"
    /\ cpc[c] = "hs_len"
    /\ Sends(c, PackBE(Len(syn[c].name)))
    /\ cpc' = [ cpc EXCEPT ![c] = "hs_name" ]
    /\ UNCHANGED << running, path, other, variant, listening, bindPc, bindConn, backlog, acceptRaised,
                    budget, s2c, peerClosed, th, log >>

\* self.sock.sendall(name_bytes)
PySynSendName(c) ==
    /\ variant = "py"
    /\ cpc[c] = "hs_name"
    /\ Sends(c, syn[c].name)
    /\ cpc' = [ cpc EXCEPT ![c] = "ack" ]
    /\ UNCHANGED << running, path, other, variant, listening, bindPc, bindConn, backlog, acceptRaised,
                    budget, s2c, peerClosed, th, log >>

\* faulty variant: the ack is read and not looked at
PySynAckIgnored(ack) == "ready"

\* where __init__ ends once recv(1) has returned ack
PySynAfterAck(ack) == IF ack # << 0 >> THEN "rejected" ELSE "ready"

\* ack = self.sock.recv(1); "if ack != b'\x00': raise Exception(...)"
PySynRecvAck(c) ==
    /\ variant = "py"
    /\ cpc[c] = "ack"
    /\ CanRecvC(c)
    /\ \E k \in RecvSizesC(c, 1) :
          /\ s2c' = [ s2c EXCEPT ![c] = Drop(@, k) ]
          /\ cpc' = [ cpc EXCEPT ![c] = PySynAfterAck(Take(s2c[c], k)) ]
          /\ syn' = [ syn EXCEPT ![c].hsRead = @ + k,
                                 ![c].error = IF PySynAfterAck(Take(s2c[c], k)) = "rejected"
                                              THEN "rejected" ELSE @ ]
    /\ UNCHANGED << running, path, other, variant, listening, bindPc, bindConn, backlog, acceptRaised,
                    budget, c2s, peerClosed, th, log >>

\* ------------------------------------------------------------- the broker
\* The routing process, by its handshake contract: it reads the opcode, the
\* length-prefixed name, and answers one byte; 0x00 routes the connection to
\* the Membrane and every later byte is passed on unchanged.
BrokerHasHandshake(c) ==
    /\ Len(c2s[c]) >= 5
    /\ c2s[c][1] = 1
    /\ Len(c2s[c]) >= 5 + UnpackBE(SubSeq(c2s[c], 2, 5))

BrokerReply(c) ==
    /\ variant = "py"
    /\ syn[c].sockOpen
    /\ syn[c].broker = ""
    /\ BrokerHasHandshake(c)
    /\ c2s' = [ c2s EXCEPT ![c] = Drop(@, 5 + UnpackBE(SubSeq(c2s[c], 2, 5))) ]
    /\ \/ /\ listening
          /\ s2c' = [ s2c EXCEPT ![c] = @ \o << 0 >> ]
          /\ syn' = [ syn EXCEPT ![c].broker = "routed" ]
          /\ backlog' = Append(backlog, c)
       \/ /\ s2c' = [ s2c EXCEPT ![c] = @ \o << 1 >> ]
          /\ syn' = [ syn EXCEPT ![c].broker = "rejected" ]
          /\ UNCHANGED backlog
       \/ /\ syn' = [ syn EXCEPT ![c].broker = "closed" ]
          /\ UNCHANGED << s2c, backlog >>
    /\ UNCHANGED << running, path, other, variant, listening, bindPc, bindConn, acceptRaised, budget,
                    cpc, peerClosed, th, log >>

\* ------------------------------------------------------ cell-py: Synapse.fire
\* faulty variant: after a failure the request is sent once more
FireRetries(c, e) ==
    /\ cpc' = [ cpc EXCEPT ![c] = "f_sendbody" ]
    /\ syn' = [ syn EXCEPT ![c].error = e, ![c].data = << >> ]

\* fire raises e: the exception leaves fire, the Synapse and its socket stay
FireRaises(c, e) ==
    /\ cpc' = [ cpc EXCEPT ![c] = "ready" ]
    /\ syn' = [ syn EXCEPT ![c].error = e, ![c].result = -1, ![c].data = << >>,
                           ![c].sendFailed = @ \/ e = "send" ]

\* payload = json.dumps(data).encode('utf-8');
\* self.sock.sendall(struct.pack(">I", length))
PySynFire(c, v) ==
    /\ variant = "py"
    /\ cpc[c] = "ready"
    /\ budget > 0
    /\ budget' = budget - 1
    /\ \/ /\ ~ syn[c].sendFailed
          /\ c2s' = [ c2s EXCEPT ![c] = @ \o PackBE(Len(Dumps(v))) ]
          /\ syn' = [ syn EXCEPT ![c].req = v, ![c].result = -1, ![c].error = "",
                                 ![c].out = @ \o PackBE(Len(Dumps(v))), ![c].fires = @ + 1 ]
          /\ cpc' = [ cpc EXCEPT ![c] = "f_sendbody" ]
       \/ /\ FarClosed(c)
          /\ cpc' = cpc
          /\ syn' = [ syn EXCEPT ![c].req = v, ![c].result = -1, ![c].error = "send",
                                 ![c].fires = @ + 1, ![c].sendFailed = TRUE ]
          /\ UNCHANGED c2s
    /\ UNCHANGED << running, path, other, variant, listening, bindPc, bindConn, backlog, acceptRaised,
                    s2c, peerClosed, th, log >>

\* self.sock.sendall(payload)
PySynFireSendBody(c) ==
    /\ variant = "py"
    /\ cpc[c] = "f_sendbody"
    /\ \/ /\ Sends(c, Dumps(syn[c].req))
          /\ cpc' = [ cpc EXCEPT ![c] = "f_recvhdr" ]
       \/ /\ FarClosed(c)
          /\ FireRaises(c, "send")
          /\ UNCHANGED c2s
    /\ UNCHANGED << running, path, other, variant, listening, bindPc, bindConn, backlog, acceptRaised,
                    budget, s2c, peerClosed, th, log >>

\* fire's locals once resp_bytes is complete: json.loads, and fire returns
PySynAfterResponse(y, bytes) ==
    IF Loads(bytes) = -1
    THEN [ y EXCEPT !.error = "json", !.result = -1, !.data = << >> ]
    ELSE [ y EXCEPT !.result = Loads(bytes), !.data = << >> ]

\* header = self._recv_exact(4): one self.sock.recv(4 - len(data));
\* resp_len = struct.unpack(">I", header)[0]
PySynFireRecvHeader(c) ==
    /\ variant = "py"
    /\ cpc[c] = "f_recvhdr"
    /\ CanRecvC(c)
    /\ \E k \in RecvSizesC(c, 4 - Len(syn[c].data)) :
          LET got == syn[c].data \o Take(s2c[c], k) IN
          /\ s2c' = [ s2c EXCEPT ![c] = Drop(@, k) ]
          /\ IF k = 0
             THEN FireRaises(c, "closed")
             ELSE IF Len(got) < 4
             THEN /\ syn' = [ syn EXCEPT ![c].data = got, ![c].frRead = @ + k ]
                  /\ cpc' = cpc
             ELSE IF UnpackBE(got) = 0
             THEN /\ syn' = [ syn EXCEPT ![c] =
                                [ PySynAfterResponse(@, << >>) EXCEPT !.frRead = @ + k ] ]
                  /\ cpc' = [ cpc EXCEPT ![c] = "ready" ]
             ELSE /\ syn' = [ syn EXCEPT ![c].length = UnpackBE(got), ![c].data = << >>,
                                         ![c].frRead = @ + k ]
                  /\ cpc' = [ cpc EXCEPT ![c] = "f_recvbody" ]
    /\ UNCHANGED << running, path, other, variant, listening, bindPc, bindConn, backlog, acceptRaised,
                    budget, c2s, peerClosed, th, log >>

\* resp_bytes = self._recv_exact(resp_len); return json.loads(...)
PySynFireRecvBody(c) ==
    /\ variant = "py"
    /\ cpc[c] = "f_recvbody"
    /\ CanRecvC(c)
    /\ \E k \in RecvSizesC(c, syn[c].length - Len(syn[c].data)) :
          LET got == syn[c].data \o Take(s2c[c], k) IN
          /\ s2c' = [ s2c EXCEPT ![c] = Drop(@, k) ]
          /\ IF k = 0
             THEN FireRaises(c, "closed")
             ELSE IF Len(got) < syn[c].length
             THEN /\ syn' = [ syn EXCEPT ![c].data = got, ![c].frRead = @ + k ]
                  /\ cpc' = cpc
             ELSE /\ syn' = [ syn EXCEPT ![c] =
                                [ PySynAfterResponse(@, got) EXCEPT !.frRead = @ + k ] ]
                  /\ cpc' = [ cpc EXCEPT ![c] = "ready" ]
    /\ UNCHANGED << running, path, other, variant, listening, bindPc, bindConn, backlog, acceptRaised,
                    budget, c2s, peerClosed, th, log >>

\* ------------------------------------------------------------ specification
Next ==
    \/ \E c \in Conns, fs \in FrameSeqs(variant, budget), tail \in Tails(variant) :
          RawConnect(c, fs, tail)
    \/ PyBindStart
    \/ PyAccept
    \/ PyAcceptFail
    \/ \E c \in Conns : PyRecvHeader(c)
    \/ \E c \in Conns : PyRecvBody(c)
    \/ \E c \in Conns : PyDispatch(c)
    \/ \E c \in Conns : PySendHeader(c)
    \/ \E c \in Conns : PySendBody(c)
    \/ SdkBindStart
    \/ SdkAccept
    \/ SdkAcceptFail
    \/ \E c \in Conns : SdkRecvHeader(c)
    \/ \E c \in Conns : SdkRecvBody(c)
    \/ \E c \in Conns : SdkDispatch(c)
    \/ \E c \in Conns : SdkSendHeader(c)
    \/ \E c \in Conns : SdkSendBody(c)
    \/ \E c \in Conns : Collect(c)
    \/ \E c \in Conns, v \in Values : SdkCall(c, v)
    \/ \E c \in Conns : SdkCallSendBody(c)
    \/ \E c \in Conns : SdkCallRecvHeader(c)
    \/ \E c \in Conns : SdkCallRecvBody(c)
    \/ \E c \in Conns, name \in Names : PySynConnect(c, name)
    \/ \E c \in Conns : PySynSendLen(c)
    \/ \E c \in Conns : PySynSendName(c)
    \/ \E c \in Conns : PySynRecvAck(c)
    \/ \E c \in Conns : BrokerReply(c)
    \/ \E c \in Conns, v \in Values : PySynFire(c, v)
    \/ \E c \in Conns : PySynFireSendBody(c)
    \/ \E c \in Conns : PySynFireRecvHeader(c)
    \/ \E c \in Conns : PySynFireRecvBody(c)

Spec == Init /\ [][Next]_vars

\* ------------------------------------------------- the life of a Membrane
\* KeyboardInterrupt reaches cell-py's main thread inside bind: "except
\* Exception" does not catch it; _handle_transport's finally clause closes the
\* connection being served, and bind is left with nothing else done
PyInterrupt ==
    /\ variant = "py"
    /\ bindPc \in { "accept", "handling" }
    /\ bindPc' = "interrupted"
    /\ bindConn' = 0
    /\ IF bindPc = "handling"
       THEN EndConv(bindConn, log[bindConn], "interrupt", << >>)
       ELSE UNCHANGED << th, log >>
    /\ UNCHANGED << running, path, other, variant, listening, backlog, acceptRaised,
                    budget, cpc, c2s, s2c, peerClosed, syn >>

\* KeyboardInterrupt reaches cell-sdk-py's bind, blocked in accept: "except
\* KeyboardInterrupt: pass", then the finally clause
SdkInterrupt ==
    /\ variant = "sdk"
    /\ bindPc = "accept"
    /\ SdkFinally("interrupted")
    /\ UNCHANGED << running, other, variant, bindConn, backlog, acceptRaised, budget,
                    cpc, c2s, s2c, peerClosed, th, log, syn >>

\* another thread clears the flag: membrane.running = False
SdkStop ==
    /\ variant = "sdk"
    /\ running
    /\ running' = FALSE
    /\ UNCHANGED << path, other, variant, listening, bindPc, bindConn, backlog,
                    acceptRaised, budget, cpc, c2s, s2c, peerClosed, th, log, syn >>

\* A second Membrane is started on the same path: "if os.path.exists(path):
\* os.remove(path)", then bind and listen (cell-py in __init__, cell-sdk-py at
\* the top of bind).
OtherStart ==
    /\ other = "none"
    /\ other' = "listening"
    /\ path' = "other"
    /\ UNCHANGED << running, variant, listening, bindPc, bindConn, backlog,
                    acceptRaised, budget, cpc, c2s, s2c, peerClosed, th, log, syn >>

\* The second Membrane's bind is over: cell-sdk-py's finally clause removes
\* whatever is at the path; cell-py has no clean-up.
OtherStop ==
    /\ other = "listening"
    /\ other' = "stopped"
    /\ path' = IF variant = "sdk" THEN "none" ELSE path
    /\ UNCHANGED << running, variant, listening, bindPc, bindConn, backlog,
                    acceptRaised, budget, cpc, c2s, s2c, peerClosed, th, log, syn >>

\* one step of cell-py's Membrane: its one thread, in bind or in the
\* conversation bind is inside
PyStep ==
    \/ PyBindStart
    \/ PyAccept
    \/ \E c \in Conns : PyRecvHeader(c)
    \/ \E c \in Conns : PyRecvBody(c)
    \/ \E c \in Conns : PyDispatch(c)
    \/ \E c \in Conns : PySendHeader(c)
    \/ \E c \in Conns : PySendBody(c)

\* one step of a Membrane: its bind loop or one of its conversations
MembraneStep ==
    \/ PyStep
    \/ SdkBindStart
    \/ SdkAccept
    \/ \E c \in Conns : SdkRecvHeader(c)
    \/ \E c \in Conns : SdkRecvBody(c)
    \/ \E c \in Conns : SdkDispatch(c)
    \/ \E c \in Conns : SdkSendHeader(c)
    \/ \E c \in Conns : SdkSendBody(c)

\* A Membrane, arbitrary peers, and what can happen to the Membrane from
\* outside: a failing accept, an interrupt, a stop, a second Membrane.
NextLife ==
    \/ \E c \in Conns, fs \in FrameSeqs(variant, budget), tail \in Tails(variant) :
          RawConnect(c, fs, tail)
    \/ MembraneStep
    \/ PyAcceptFail
    \/ SdkAcceptFail
    \/ PyInterrupt
    \/ SdkInterrupt
    \/ SdkStop
    \/ OtherStart
    \/ OtherStop

SpecLife == Init /\ [][NextLife]_vars

\* cell-py's Membrane alone with arbitrary peers, failing accepts and an
\* interrupt.  Its one thread runs whenever it is not blocked in accept or
\* recv: weak fairness of its steps.
InitSerial == Init /\ variant = "py"

NextSerial ==
    \/ \E c \in Conns, fs \in FrameSeqs(variant, budget), tail \in Tails(variant) :
          RawConnect(c, fs, tail)
    \/ PyStep
    \/ PyAcceptFail
    \/ PyInterrupt

FairSerial == InitSerial /\ [][NextSerial]_vars /\ WF_vars(PyStep)


\* ------------------------------------------------------------ properties
\* how many frames the bytes are, or -1 when they end inside a frame
RECURSIVE WholeFrames(_, _)
WholeFrames(v, bytes) ==
    IF bytes = << >> THEN 0
    ELSE IF Len(bytes) < 4 \/ Len(bytes) < 4 + Unpack(v, Take(bytes, 4)) THEN -1
    ELSE LET r == WholeFrames(v, Drop(bytes, 4 + Unpack(v, Take(bytes, 4))))
         IN  IF r = -1 THEN -1 ELSE r + 1

\* C1: on every connection, whenever the conversation is about to read request
\* bytes (or to hand a request on), every request read before has had its
\* response frame written completely; while a response is being produced or
\* written, exactly one request is outstanding.
C1_Alternation ==
    \A c \in Conns :
        /\ th[c].pc \in { "hdr", "body" } =>
              WholeFrames(variant, log[c].sent) = Len(log[c].frames)
        /\ th[c].pc = "dispatch" =>
              WholeFrames(variant, log[c].sent) = Len(log[c].frames)
        /\ th[c].pc \in { "sendhdr", "sendbody" } =>
              /\ log[c].resps + 1 = Len(log[c].frames)
              /\ Len(log[c].calls) <= Len(log[c].frames)
        /\ log[c].resps <= Len(log[c].frames)

\* a second request is being read after the first one's response was written
C1_Witness ==
    \E c \in Conns :
        /\ th[c].pc = "body"
        /\ Len(log[c].frames) = 1
        /\ WholeFrames(variant, log[c].sent) = 1


\* the conversation on c ended because a read found the stream closed or short
EndedByRead(c) ==
    th[c].pc = "closed" /\ log[c].ending \in { "eof", "short", "midlen", "midbody" }

\* C2: a peer writes two whole frames of payload lengths L and M and nothing
\* else; unless deserialization, the handler or a send ended the conversation
\* earlier, the Membrane has decoded exactly two frames, of lengths L then M,
\* when the conversation is over, however recv splits the bytes.
C2_FrameBoundary ==
    \A c \in Conns :
        ( /\ cpc[c] = "raw"
          /\ Len(log[c].fs) = 2
          /\ log[c].tail = << >>
          /\ EndedByRead(c) )
        => /\ Len(log[c].frames) = 2
           /\ \A i \in 1 .. 2 :
                 /\ log[c].frames[i].length = Len(log[c].fs[i])
                 /\ Len(log[c].frames[i].bytes) = Len(log[c].fs[i])

\* C3: the bytes of a payload that stops short of its declared length are
\* never handed to deserialization; the handler runs and a response is written
\* at most once per whole frame of the peer.
C3_TruncatedNeverDecoded ==
    \A c \in Conns :
        cpc[c] = "raw" =>
            /\ \A i \in 1 .. Len(log[c].frames) :
                  Len(log[c].frames[i].bytes) = log[c].frames[i].length
            /\ Len(log[c].calls) <= Len(log[c].fs)
            /\ log[c].resps <= Len(log[c].fs)

\* C4: a conversation that read a peer's stream to its end reports an error to
\* the operator when the stream stopped inside a frame (inside the length or
\* inside the payload), and reports none when it stopped at a frame boundary.
C4_TruncationReported ==
    \A c \in Conns :
        ( cpc[c] = "raw" /\ th[c].pc = "closed" /\ c2s[c] = << >> )
        => /\ log[c].tail # << >> => log[c].report # << >>
           /\ (log[c].tail = << >> /\ log[c].ending = "eof") => log[c].report = << >>

\* C5: once accept has raised, or a conversation has ended by a truncated
\* frame, a deserialization failure, a handler failure or a send failure, bind
\* is still in its accept loop with its listener open.
C5_AcceptLoopSurvives ==
    ( \/ acceptRaised
      \/ \E c \in Conns :
            log[c].ending \in { "midlen", "midbody", "short", "nonjson", "handler", "send" } )
    => bindPc \in { "accept", "handling" } /\ listening


\* what the client of c has written to the Membrane: the script of an
\* arbitrary peer, the bytes of a Synapse after its handshake
PeerBytes(c) ==
    IF cpc[c] = "raw" THEN ScriptBytes(variant, log[c].fs, log[c].tail)
    ELSE IF variant = "sdk" THEN syn[c].out
    ELSE Drop(syn[c].out, Min(Len(syn[c].out), 5 + Len(syn[c].name)))

\* the step that ends the conversation on c at a clean end of stream
CleanEnd(c) == log[c].ending = "" /\ log'[c].ending = "eof"

\* C6: the step in which a conversation finds its stream closed before the
\* first byte of a length header closes the connection (once), invokes no
\* handler, writes nothing and reports nothing; when the peer had written whole
\* frames only, every one of them was decoded and answered; and the accept loop
\* is left alive: cell-py's bind is back at accept, cell-sdk-py's bind is where
\* it was, which is at accept with the listener open unless accept has raised.
C6_CleanShutdown ==
    [][ \A c \in Conns :
          CleanEnd(c) =>
            /\ th'[c].pc = "closed"
            /\ log'[c].closes = 1
            /\ log'[c].calls = log[c].calls
            /\ log'[c].frames = log[c].frames
            /\ s2c'[c] = s2c[c]
            /\ log'[c].sent = log[c].sent
            /\ log'[c].report = << >>
            /\ WholeFrames(variant, PeerBytes(c)) >= 0 =>
                  /\ Len(log[c].frames) = WholeFrames(variant, PeerBytes(c))
                  /\ WholeFrames(variant, log[c].sent) = Len(log[c].frames)
            /\ listening' = listening
            /\ IF variant = "py"
               THEN bindPc' = "accept" /\ bindConn' = 0 /\ listening'
               ELSE /\ bindPc' = bindPc
                    /\ ~ acceptRaised => bindPc' = "accept" /\ listening'
      ]_vars

\* a conversation ended cleanly after one answered request and the next
\* connection has been accepted
C6_Witness ==
    /\ th[1].pc = "closed"
    /\ log[1].ending = "eof"
    /\ Len(log[1].frames) = 1
    /\ th[2].pc = "hdr"

\* the reply to each request of the model, spelled out: "1" -> "2",
\* "12" -> "13", the sentinel -> the probe reply
ReplyFor(bytes) ==
    CASE bytes = << 49 >> -> << 50 >>
      [] bytes = << 49, 50 >> -> << 49, 51 >>
      [] bytes = GENOME -> GenomeReply
      [] OTHER -> << >>

RECURSIVE Replies(_, _)
Replies(v, frames) ==
    IF frames = << >> THEN << >>
    ELSE Frame(v, ReplyFor(Head(frames).bytes)) \o Replies(v, Tail(frames))

RECURSIVE Received(_, _)
Received(v, frames) ==
    IF frames = << >> THEN << >>
    ELSE Pack(v, Head(frames).length) \o Head(frames).bytes \o Received(v, Tail(frames))

\* what the broker has put on c
BrokerBytes(c) ==
    CASE syn[c].broker = "routed" -> << 0 >>
      [] syn[c].broker = "rejected" -> << 1 >>
      [] OTHER -> << >>

\* C7: on each connection, the requests the conversation decoded are bytes
\* that connection's client wrote, the bytes the Membrane wrote are the replies
\* to those requests, in order, and the bytes on their way to the client are
\* exactly those (after the broker's ack) minus what the client has read.
C7_NoCrossTalk ==
    \A c \in Conns :
        /\ IsPrefix(Received(variant, log[c].frames), PeerBytes(c))
        /\ IsPrefix(log[c].sent, Replies(variant, log[c].frames))
        /\ s2c[c] = Drop(BrokerBytes(c) \o log[c].sent, syn[c].hsRead + syn[c].frRead)

\* two conversation threads are each in the middle of writing a different reply
C7_Witness ==
    /\ variant = "sdk"
    /\ th[1].pc = "sendbody"
    /\ th[2].pc = "sendbody"
    /\ th[1].resp # th[2].resp

\* the handshake of "name", spelled out
HandshakeOf(name) == << 1, 0, 0, 0, Len(name) >> \o name

\* C8: after a rejected handshake the Synapse has failed with the rejection,
\* its socket is closed, and it has written nothing but the handshake.
C8_RejectCloses ==
    \A c \in Conns :
        cpc[c] = "rejected" =>
            /\ syn[c].error = "rejected"
            /\ ~ syn[c].sockOpen
            /\ syn[c].out = HandshakeOf(syn[c].name)

\* the request frames a Synapse can write
RequestStreams == UNION { [ 1 .. k -> { Dumps(v) : v \in Values } ] : k \in 0 .. MaxFrames + 1 }

\* C9: what a cell-py Synapse has written is a prefix of: 0x01, the 4-byte
\* big-endian length of the name, the name, then request frames; a byte beyond
\* the handshake is written only after the one ack byte was read and was the
\* 0x00 the broker sent; never more than one byte is read as handshake, and
\* frame data is read only after it.
C9_HandshakeOrder ==
    \A c \in Conns :
        (variant = "py" /\ syn[c].sockOpen) =>
            LET hs == HandshakeOf(syn[c].name) IN
            /\ IsPrefix(syn[c].out, hs) \/ IsPrefix(hs, syn[c].out)
            /\ syn[c].hsRead <= 1
            /\ syn[c].frRead > 0 => syn[c].hsRead = 1
            /\ Len(syn[c].out) > Len(hs) =>
                  /\ syn[c].hsRead = 1
                  /\ syn[c].broker = "routed"
                  /\ \E fs \in RequestStreams :
                        IsPrefix(Drop(syn[c].out, Len(hs)), FramesBytes("py", fs))
            /\ cpc[c] \in { "ready", "f_sendbody", "f_recvhdr", "f_recvbody" } =>
                  syn[c].hsRead = 1 /\ syn[c].broker = "routed"

\* a fire has returned its result on a brokered connection
C9_Witness ==
    \E c \in Conns :
        /\ variant = "py"
        /\ cpc[c] = "ready"
        /\ syn[c].result # -1
        /\ syn[c].frRead > 0

\* the JSON text of each request value of the model, spelled out
DigitsOf(v) == IF v = 1 THEN << 49 >> ELSE << 49, 50 >>

\* C10: when a call (Synapse.call, or Synapse.fire through a broker that
\* accepted) with request value v has returned, the value returned is
\* handler(v) (the model's handler adds one); the request the Membrane decoded
\* last is the JSON text of v with a length field equal to its byte count, and
\* the Membrane has written whole frames only, the last one the JSON text of
\* the value returned.
C10_CallReturnsHandlerResult ==
    \A c \in Conns :
        syn[c].result # -1 =>
            LET f == log[c].frames[Len(log[c].frames)] IN
            /\ syn[c].result = syn[c].req + 1
            /\ Len(log[c].frames) >= 1
            /\ f.bytes = DigitsOf(syn[c].req)
            /\ f.length = Len(f.bytes)
            /\ WholeFrames(variant, log[c].sent) = Len(log[c].frames)
            /\ IsPrefix(Received(variant, log[c].frames), PeerBytes(c))
            /\ log[c].sent = Replies(variant, log[c].frames)

\* a call for the two-digit value has returned its handler's result
C10_Witness ==
    \E c \in Conns :
        /\ syn[c].result = 13
        /\ cpc[c] \in { "returned", "ready" }

\* the step of the client of c is a recv of response bytes that returns b'':
\* the request frame is out, the far end has closed, nothing is left to read
ResponseEof(c) ==
    /\ \/ cpc[c] \in { "c_recvhdr", "f_recvhdr", "f_recvbody" }
       \/ cpc[c] = "c_recvbody" /\ Len(syn[c].data) < syn[c].length
    /\ FarClosed(c)
    /\ s2c[c] = << >>
    /\ syn'[c] # syn[c] \/ cpc'[c] # cpc[c]

\* C11: when the far end has closed after the request frame was sent and the
\* read of the response meets the end of the stream before a whole response
\* frame, that step ends the call with the connection-closed failure: no value
\* is returned and the call does not go on reading.
C11_ClosedBeforeResponse ==
    [][ \A c \in Conns :
          ResponseEof(c) =>
            /\ cpc'[c] \in { "failed", "ready" }
            /\ syn'[c].error = "closed"
            /\ syn'[c].result = -1
      ]_vars

\* the payload is one of the model's JSON texts, "1" or "12", spelled out
IsJsonText(bytes) == bytes \in { << 49 >>, << 49, 50 >> }

\* the values the handler is owed: one per frame whose payload is JSON text
RECURSIVE Decoded(_)
Decoded(frames) ==
    IF frames = << >> THEN << >>
    ELSE IF IsJsonText(Head(frames).bytes)
         THEN << IF Head(frames).bytes = << 49 >> THEN 1 ELSE 12 >> \o Decoded(Tail(frames))
         ELSE Decoded(Tail(frames))

\* C12: on every connection the handler was invoked exactly on the payloads
\* that deserialized; and for the last request frame handed on, whole and not
\* the probe: if it did not deserialize or the handler raised, the connection
\* is closed and not one response byte was written for it; the Membrane is
\* writing or has written its response frame only if it deserialized and the
\* handler returned, and then it does write it (the response is being sent,
\* or is out whole, or the send itself raised).
C12_ResponseIffHandled ==
    \A c \in Conns :
        /\ log[c].calls = Decoded(log[c].frames)
        /\ Len(log[c].frames) >= 1 =>
              LET n == Len(log[c].frames)
                  f == log[c].frames[n]
                  ok == IsJsonText(f.bytes) /\ log[c].ending # "handler"
              IN  (Len(f.bytes) = f.length /\ f.bytes # GENOME) =>
                    /\ ~ ok =>
                          /\ th[c].pc = "closed"
                          /\ log[c].closes = 1
                          /\ log[c].ending \in { "nonjson", "handler" }
                          /\ log[c].resps = n - 1
                          /\ WholeFrames(variant, log[c].sent) = n - 1
                    /\ (th[c].pc \in { "sendhdr", "sendbody" } \/ log[c].resps = n) => ok
                    /\ ok =>
                          \/ th[c].pc \in { "sendhdr", "sendbody" }
                               /\ th[c].resp = ReplyFor(f.bytes)
                          \/ log[c].resps = n
                               /\ log[c].sent = Replies(variant, log[c].frames)
                          \/ log[c].ending = "send"

\* after one answered request the handler has raised on the next, and the
\* connection is closed with one response out
C12_Witness ==
    \E c \in Conns :
        /\ log[c].ending = "handler"
        /\ th[c].pc = "closed"
        /\ log[c].resps = 1
        /\ Len(log[c].frames) = 2

\* the Membrane's conversation on c has met a decode failure: the last frame
\* it handed on stopped short of its declared length, or is no JSON text
MembraneDecodeFailed(c) ==
    /\ log[c].frames # << >>
    /\ LET f == log[c].frames[Len(log[c].frames)] IN
          \/ Len(f.bytes) < f.length
          \/ ~ IsJsonText(f.bytes) /\ f.bytes # GENOME

\* the Synapse of c has met one: its last read of a response found the stream
\* closed inside a frame, or the response was no JSON text
SynapseDecodeFailed(c) == syn[c].error \in { "closed", "struct", "json" }

\* C13: once a side has met a truncated frame or a payload that does not
\* deserialize on a connection, no step makes that side hand on another frame
\* from it or write another byte to it.
C13_NoReuseAfterDecodeFailure ==
    [][ \A c \in Conns :
          /\ MembraneDecodeFailed(c) =>
                /\ log'[c].frames = log[c].frames
                /\ log'[c].sent = log[c].sent
          /\ SynapseDecodeFailed(c) =>
                /\ syn'[c].out = syn[c].out
                /\ syn'[c].frRead = syn[c].frRead
      ]_vars

\* bind is no longer running: an exception or an interrupt left it, or it
\* returned
BindOver == bindPc \in { "raised", "interrupted", "returned" }

\* C14: whenever a Membrane's bind is over, its listening socket is closed and
\* the socket file it bound is gone from its path.
C14_ReleasedOnShutdown == BindOver => ~ listening /\ path # "own"

\* the frames of at most n requests
RequestsUpTo(n) == { fs \in RequestStreams : Len(fs) <= n }

\* C15: a Synapse (one call of cell-sdk-py, one object of cell-py) has made
\* at most one connect, none when the target's path does not exist; what it
\* has written is its one handshake (cell-py) and then at most one request
\* frame per call made, never a byte more, whatever failed; and the handler was
\* invoked at most once per call.
C15_NoRetry ==
    \A c \in Conns :
        cpc[c] \notin { "idle", "raw" } =>
            /\ syn[c].connects <= 1
            /\ syn[c].error = "not_found" => syn[c].connects = 0 /\ syn[c].out = << >>
            /\ \E fs \in RequestsUpTo(syn[c].fires) :
                  IsPrefix(PeerBytes(c), FramesBytes(variant, fs))
            /\ variant = "py" =>
                  \/ IsPrefix(syn[c].out, HandshakeOf(syn[c].name))
                  \/ IsPrefix(HandshakeOf(syn[c].name), syn[c].out)
            /\ Len(log[c].calls) <= syn[c].fires
            /\ Len(log[c].frames) <= syn[c].fires

\* a fire has failed on a closed connection after the handler was invoked for
\* its request, and the Synapse is idle again
C15_Witness ==
    \E c \in Conns :
        /\ variant = "py"
        /\ cpc[c] = "ready"
        /\ syn[c].error = "closed"
        /\ syn[c].fires = 1
        /\ Len(log[c].calls) = 1

\* the conversation on c takes a step
ConvSteps(c) == th'[c] # th[c]

\* C16: in cell-py, the step that handles a payload equal to the sentinel
\* invokes no handler, reports nothing, keeps the conversation open and makes
\* the probe's reply the response to send; the step that completes that
\* response goes back to reading the next header unless the send raised; and
\* no conversation has ended as a deserialization failure on the sentinel.
C16_ProbeIntercepted ==
    [][ \A c \in Conns :
          variant = "py" =>
            /\ (th[c].pc = "dispatch" /\ th[c].data = GENOME /\ ConvSteps(c)) =>
                  /\ th'[c].pc = "sendhdr"
                  /\ th'[c].resp = << 123, 34, 116, 121, 112, 101, 34, 58, 34, 100, 121,
                                     110, 97, 109, 105, 99, 95, 112, 121, 116, 104, 111,
                                     110, 34, 125 >>
                  /\ log'[c].calls = log[c].calls
                  /\ log'[c].report = log[c].report
                  /\ log'[c].ending = ""
            /\ (th[c].pc = "sendbody" /\ th[c].probe /\ ConvSteps(c)) =>
                  \/ /\ th'[c].pc = "hdr"
                     /\ log'[c].resps = log[c].resps + 1
                     /\ log'[c].calls = log[c].calls
                  \/ log'[c].ending = "send"
            /\ log[c].ending = "nonjson" =>
                  log[c].frames[Len(log[c].frames)].bytes # GENOME
      ]_vars

\* a probe was answered and the next request on the same connection has been
\* read and handed to the handler
C16_Witness ==
    \E c \in Conns :
        /\ variant = "py"
        /\ Len(log[c].frames) = 2
        /\ log[c].frames[1].bytes = GENOME
        /\ log[c].resps = 1
        /\ log[c].calls = << 12 >>

\* the conversation on c is running: accepted and not over
Active(c) == th[c].pc \notin { "none", "closed" }

\* c is waiting in the listen queue
Queued(c) == \E i \in 1 .. Len(backlog) : backlog[i] = c

\* C17: in cell-py at most one conversation is running at any time, and it is
\* the one bind is inside; a connection in the listen queue has not been read
\* from; and every queued connection is accepted in the end, unless an
\* interrupt ends bind first.
C17_SerialDispatch ==
    /\ [] ( variant = "py" =>
              /\ \A c, d \in Conns : (Active(c) /\ Active(d)) => c = d
              /\ \A c \in Conns : Active(c) => bindPc = "handling" /\ bindConn = c
              /\ \A c \in Conns : Queued(c) => th[c].pc = "none" /\ log[c].frames = << >> )
    /\ \A c \in Conns :
          (variant = "py" /\ Queued(c)) ~> (th[c].pc # "none" \/ bindPc = "interrupted")

\* a second connection waits in the queue while the first one's request is
\* being read
C17_Witness ==
    /\ variant = "py"
    /\ th[1].pc = "body"
    /\ backlog = << 2 >>
    /\ c2s[2] # << >>

\* C18: in cell-sdk-py, once self.running is False no step accepts a
\* connection or starts a conversation on one, and a bind that was waiting in
\* accept is not left waiting: every step taken with the flag cleared leaves
\* the listen queue as long as it was or longer and starts no conversation.
C18_StopEndsAccepting ==
    [][ (variant = "sdk" /\ ~ running) =>
          /\ Len(backlog') >= Len(backlog)
          /\ \A c \in Conns : th[c].pc = "none" => th'[c].pc = "none"
      ]_vars

\* the ways a conversation ends
Endings == { "eof", "short", "midlen", "midbody", "nonjson", "handler", "send", "interrupt" }

\* C19: a connection that was accepted and whose conversation is over has
\* been closed by the Membrane exactly once, whichever way the conversation
\* ended; a connection whose conversation is still running, or that was never
\* accepted, has not been closed; no connection is closed twice.
C19_ClosedExactlyOnce ==
    \A c \in Conns :
        /\ log[c].closes <= 1
        /\ th[c].pc = "closed" <=> log[c].closes = 1
        /\ th[c].pc = "closed" <=> log[c].ending \in Endings
        /\ th[c].pc # "closed" => log[c].ending = ""

\* conversations have ended by a handler failure and by a failed send
C19_Witness ==
    /\ th[1].pc = "closed" /\ log[1].ending = "handler"
    /\ th[2].pc = "closed" /\ log[2].ending = "send"

\* C20: a Membrane that is listening and whose bind is not over is reachable
\* at its path: the socket file there is its own; so is the second Membrane
\* while it listens.  No start-up and no shutdown of the one takes the path
\* from the other.
C20_PathOwnedExclusively ==
    /\ (listening /\ ~ BindOver) => path = "own"
    /\ other = "listening" => path = "other"

=============================================================================
